---- MODULE Spec2Model ----
(***************************************************************************)
(* Model of the workflow orchestration and status-tracking client of the   *)
(* Connect Data page (frontend/src/app/dashboard/connect-data/page.tsx)    *)
(* and of the fetch wrapper it calls (auth/middleware/fetchWithAuth.tsx).  *)
(*                                                                         *)
(* The page is a React function component.  Its state (two job ids, two    *)
(* stored statuses) lives in useState cells, the handle of the poll timer  *)
(* in a ref.  Every launch operation and every poll tick is an async       *)
(* function: it runs to its next await in one step and is resumed by the   *)
(* response it waits for.  A function created in a render reads the state  *)
(* of THAT render: startPollingMulti and its tick see the ingestStatus and *)
(* cleanStatus of the render in which the launch operation was invoked,    *)
(* whatever is stored later.                                               *)
(***************************************************************************)
EXTENDS Integers, FiniteSets, Sequences, TLC

(***************************************************************************)
(* Bounds of the model.                                                    *)
(***************************************************************************)
\* kickoff requests sent over the life of the component
MaxLaunch == 2
\* ticks one poll loop may start (the code has no such limit)
MaxTicks == 2

Invocations == 1..MaxLaunch

(***************************************************************************)
(* HTTP outcomes of one request.  NetworkError stands for fetch rejecting  *)
(* (no response at all); the others are response status codes.             *)
(***************************************************************************)
NetworkError == 0
HttpOk == 200
HttpServerError == 500
HttpUnauthorized == 401
HttpForbidden == 403

Outcomes == {NetworkError, HttpOk, HttpServerError, HttpUnauthorized, HttpForbidden}

\* Response.ok
ResOk(code) == code >= 200 /\ code <= 299

\* fetchWithAuth throws instead of returning: fetch itself rejected, or the
\* status is 401 or 403
fetchWithAuthThrows(code) ==
  \/ code = NetworkError
  \/ code = HttpUnauthorized
  \/ code = HttpForbidden

(***************************************************************************)
(* Texts.  A string of the program is a TLA+ string; chars gives its       *)
(* characters, and toLowerCase and includes work on the characters.        *)
(***************************************************************************)
\* the texts a status or a response body carries in the model
Texts ==
  {"Database connection failed: timeout",
   "OperationalError: database connection failed",
   "Database connection refused",
   "KeyError: 'x'",
   "Internal Server Error",
   ""}

chars(s) ==
  CASE s = "Database connection failed: timeout" ->
         <<"D", "a", "t", "a", "b", "a", "s", "e", " ", "c", "o", "n", "n",
           "e", "c", "t", "i", "o", "n", " ", "f", "a", "i", "l", "e", "d",
           ":", " ", "t", "i", "m", "e", "o", "u", "t">>
    [] s = "OperationalError: database connection failed" ->
         <<"O", "p", "e", "r", "a", "t", "i", "o", "n", "a", "l", "E", "r",
           "r", "o", "r", ":", " ", "d", "a", "t", "a", "b", "a", "s", "e",
           " ", "c", "o", "n", "n", "e", "c", "t", "i", "o", "n", " ", "f",
           "a", "i", "l", "e", "d">>
    [] s = "Database connection refused" ->
         <<"D", "a", "t", "a", "b", "a", "s", "e", " ", "c", "o", "n", "n",
           "e", "c", "t", "i", "o", "n", " ", "r", "e", "f", "u", "s", "e",
           "d">>
    [] s = "KeyError: 'x'" ->
         <<"K", "e", "y", "E", "r", "r", "o", "r", ":", " ", "'", "x", "'">>
    [] s = "Internal Server Error" ->
         <<"I", "n", "t", "e", "r", "n", "a", "l", " ", "S", "e", "r", "v",
           "e", "r", " ", "E", "r", "r", "o", "r">>
    [] s = "" -> <<>>

UpperCase ==
  <<"A", "B", "C", "D", "E", "F", "G", "H", "I", "J", "K", "L", "M", "N",
    "O", "P", "Q", "R", "S", "T", "U", "V", "W", "X", "Y", "Z">>
LowerCase ==
  <<"a", "b", "c", "d", "e", "f", "g", "h", "i", "j", "k", "l", "m", "n",
    "o", "p", "q", "r", "s", "t", "u", "v", "w", "x", "y", "z">>

\* String.prototype.toLowerCase on a sequence of characters
toLowerCase(cs) ==
  [i \in 1..Len(cs) |->
     IF \E j \in 1..Len(UpperCase) : UpperCase[j] = cs[i]
     THEN LowerCase[CHOOSE j \in 1..Len(UpperCase) : UpperCase[j] = cs[i]]
     ELSE cs[i]]

\* String.prototype.includes on sequences of characters
includes(cs, needle) ==
  \E i \in 0..(Len(cs) - Len(needle)) :
    \A j \in 1..Len(needle) : cs[i + j] = needle[j]

\* the literal "database connection failed" of hasConnectionError
ConnectionFailedText ==
  <<"d", "a", "t", "a", "b", "a", "s", "e", " ", "c", "o", "n", "n", "e",
    "c", "t", "i", "o", "n", " ", "f", "a", "i", "l", "e", "d">>

(***************************************************************************)
(* TaskStatusInfo and TaskStatus.  A field of info that is not there is    *)
(* Absent; an info of null is NullInfo; a stored status of null is         *)
(* NullStatus (task_id 0).                                                 *)
(***************************************************************************)
Absent == "<absent>"

NullInfo == [isNull |-> TRUE, error |-> Absent, message |-> Absent, percent |-> {}]

\* the info { error: e, message: m }, either field possibly Absent
Info(e, m) == [isNull |-> FALSE, error |-> e, message |-> m, percent |-> {}]
\* the info i with the number p in its field percent; the field is kept as
\* the set of the number it holds, empty when the info has no percent
withPercent(i, p) == [i EXCEPT !.isNull = FALSE, !.percent = {p}]

Infos == {NullInfo} \cup {Info(e, m) : e \in Texts \cup {Absent}, m \in Texts \cup {Absent}}

TaskState == {"PENDING", "STARTED", "PROGRESS", "SUCCESS", "FAILURE", "RETRY"}

\* the states the modelled backend answers with
BackendStates == {"PENDING", "SUCCESS", "FAILURE"}

\* the info the modelled backend attaches to a status of state st: it
\* tells what went wrong with a job that failed, for an extract job an
\* exception in error, for a transform or load job that the database could
\* not be reached in message
BackendInfos(forIngest, st) ==
  IF st # "FAILURE" THEN {NullInfo}
  ELSE IF forIngest THEN {Info("KeyError: 'x'", Absent)}
  ELSE {Info(Absent, "Database connection failed: timeout")}

\* the body of the non-success responses of the modelled status endpoint
ErrorBody == "Internal Server Error"

NoId == 0

NullStatus ==
  [task_id |-> NoId, state |-> "null", ready |-> FALSE, successful |-> "null", info |-> NullInfo]

\* the status every launch operation stores for a job it has just started
PendingStatus(id) ==
  [task_id |-> id, state |-> "PENDING", ready |-> FALSE, successful |-> "null", info |-> NullInfo]

\* the body of a successful status response for job id that reports state
\* st with info i
BackendStatus(id, st, i) ==
  [task_id |-> id,
   state |-> st,
   ready |-> st \in {"SUCCESS", "FAILURE"},
   successful |-> IF st = "SUCCESS" THEN "true" ELSE IF st = "FAILURE" THEN "false" ELSE "null",
   info |-> i]

\* the update, had it set the state and the message only
SyntheticFailureStateOnly(prev, txt) ==
  IF prev # NullStatus
  THEN [prev EXCEPT !.state = "FAILURE", !.info = Info(Absent, txt)]
  ELSE NullStatus
\* the functional update of a stored status on a non-success status response
\* whose body is txt
SyntheticFailure(prev, txt) ==
  IF prev # NullStatus
  THEN [prev EXCEPT !.state = "FAILURE", !.ready = TRUE, !.successful = "false",
                    !.info = Info(Absent, txt)]
  ELSE NullStatus

\* a truthy string: there, and not empty
truthy(t) == t # Absent /\ t # ""

hasConnectionError(status) ==
  IF status = NullStatus THEN FALSE
  ELSE IF truthy(status.info.error)
  THEN includes(toLowerCase(chars(status.info.error)), ConnectionFailedText)
  ELSE IF truthy(status.info.message)
  THEN includes(toLowerCase(chars(status.info.message)), ConnectionFailedText)
  ELSE FALSE

\* what the card of a slot shows of a failure: the message of a connection
\* failure, the plain failure text, or none of the two
classify(status) ==
  IF hasConnectionError(status) THEN "INFRA_CONNECTIVITY"
  ELSE IF status # NullStatus /\ status.state = "FAILURE" THEN "GENERIC_FAILURE"
  ELSE "NONE"

\* the job ids the backend hands out for the k-th kickoff
ExtractTaskId(k) == 2 * k - 1
TransformTaskId(k) == 2 * k
\* the load_task_id an extract-transform-load kickoff response may carry
LoadTaskId(k) == 2 * MaxLaunch + k

(***************************************************************************)
(* State.                                                                  *)
(***************************************************************************)
VARIABLES
  mounted,        \* the component is mounted
  ingestTaskId,   \* useState: job id of the extract slot, NoId for null
  cleanTaskId,    \* useState: job id of the transform/load slot
  ingestStatus,   \* useState: stored status of the extract slot
  cleanStatus,    \* useState: stored status of the transform/load slot
  pollRef,        \* pollRef.current: 0 for null, k for the handle of the
                  \* timer invocation k set last
  kickoffsSent,   \* kickoff requests sent so far
  inv,            \* per launch that sent a kickoff: the async call and the
                  \* poll loop it started; ticks counts the ticks started,
                  \* afterOthers records that the launch was made when
                  \* every earlier invocation had ended
  endpoint,       \* the status endpoint: "up" answers a status request
                  \* in any way; "down" answers every status request with
                  \* a non-success response; "stuck" answers in any way for
                  \* the jobs of the first launch and with a successful
                  \* PENDING status for the jobs of every later launch;
                  \* "scenarioA" and "scenarioB" answer by the scripts of
                  \* the two scenarios
  setModalState,  \* the module variable of unauthorizedModalTrigger: the
                  \* registered setter, NoSetter for null
  modalState,     \* useState of UnauthorizedModalProvider: the path and
                  \* the status the modal shows, NoModal for null
  triggers,       \* the callbacks fetchWithAuth has passed to setTimeout
                  \* and that have not run yet, oldest first
  returned        \* how the last call of fetchWithAuth that has been
                  \* followed here ended

vars ==
  <<mounted, ingestTaskId, cleanTaskId, ingestStatus, cleanStatus, pollRef,
    kickoffsSent, inv, endpoint, setModalState, modalState, triggers, returned>>

\* the state of the page
page ==
  <<mounted, ingestTaskId, cleanTaskId, ingestStatus, cleanStatus, pollRef,
    kickoffsSent, inv, endpoint>>

\* the state of the unauthorized modal; the specifications of the page
\* leave it as it is, no handler of the page reads it
modal == <<setModalState, modalState, triggers, returned>>

tracking == <<ingestTaskId, cleanTaskId, ingestStatus, cleanStatus, pollRef>>

Ops == {"extract", "transform", "load", "full"}

\* an unused entry of inv
NoInvocation ==
  [op |-> "none", pc |-> "unused",
   capIngestReady |-> FALSE, capCleanReady |-> FALSE,
   ingestId |-> NoId, cleanId |-> NoId,
   ingestDone |-> FALSE, ticks |-> 0, afterOthers |-> TRUE]

\* invocation record v once its async function has ended in the way pc
\* names: the values of its closure and its local variables are gone
ended(v, pc) ==
  [NoInvocation EXCEPT
     !.op = v.op, !.pc = pc, !.ingestId = v.ingestId, !.cleanId = v.cleanId,
     !.ticks = IF pc = "stopped" THEN v.ticks ELSE 0,
     !.afterOthers = v.afterOthers]

\* invocation record v with its tick at the await, or at the end, t names
at(v, t) ==
  IF t.pc = "stopped" THEN ended(v, "stopped")
  ELSE [v EXCEPT !.pc = t.pc, !.ingestDone = t.ingestDone]

\* let setModalState = null
NoSetter == "null"
\* useState(null)
NoModal == [path |-> "<null>", status |-> 0]
\* no call of fetchWithAuth has ended yet
NoCall == [kind |-> "none", path |-> "<null>", status |-> 0]

InitModal ==
  /\ setModalState = NoSetter
  /\ modalState = NoModal
  /\ triggers = <<>>
  /\ returned = NoCall

Init ==
  /\ InitModal
  /\ mounted = TRUE
  /\ ingestTaskId = NoId
  /\ cleanTaskId = NoId
  /\ ingestStatus = NullStatus
  /\ cleanStatus = NullStatus
  /\ pollRef = 0
  /\ kickoffsSent = 0
  /\ inv = [k \in Invocations |-> NoInvocation]
  /\ endpoint \in {"up", "down", "stuck", "scenarioA", "scenarioB"}

(***************************************************************************)
(* The Guard.  ingestRunning, cleanRunning and workflowRunning are flags   *)
(* the render computes and the buttons are disabled by; each launch        *)
(* operation computes its own copy before it does anything else.           *)
(***************************************************************************)
\* Boolean(taskId && status && !status.ready)
slotRunning(id, status) == id # NoId /\ status # NullStatus /\ ~status.ready

ingestRunning == slotRunning(ingestTaskId, ingestStatus)
cleanRunning == slotRunning(cleanTaskId, cleanStatus)
workflowRunning == ingestRunning \/ cleanRunning

\* the early return of extractData
extractDataGuard ==
  ingestTaskId # NoId /\ ingestStatus # NullStatus /\ ~ingestStatus.ready
\* the early return of transformData, had it been copied from extractData
\* with the slot left unchanged
transformDataGuardOnIngest ==
  ingestTaskId # NoId /\ ingestStatus # NullStatus /\ ~ingestStatus.ready
\* the early return of transformData
transformDataGuard ==
  cleanTaskId # NoId /\ cleanStatus # NullStatus /\ ~cleanStatus.ready
\* the early return of loadAnalytics
loadAnalyticsGuard ==
  cleanTaskId # NoId /\ cleanStatus # NullStatus /\ ~cleanStatus.ready
\* the early return of runFullETL
runFullETLGuard ==
  \/ ingestTaskId # NoId /\ ingestStatus # NullStatus /\ ~ingestStatus.ready
  \/ cleanTaskId # NoId /\ cleanStatus # NullStatus /\ ~cleanStatus.ready

LaunchRefused(op) ==
  CASE op = "extract" -> extractDataGuard
    [] op = "transform" -> transformDataGuard
    [] op = "load" -> loadAnalyticsGuard
    [] op = "full" -> runFullETLGuard

(***************************************************************************)
(* A launch operation up to its first await: the guard, then the kickoff   *)
(* request.  The call keeps the stored statuses of the render it was       *)
(* invoked in; the poll loop it starts later reads their ready flags.      *)
(***************************************************************************)
\* ingestStatus?.ready and cleanStatus?.ready as the tick of the poll loop
\* started by this call of op will read them: the values of the render the
\* call is made in (a loop with no job in a slot never reads that slot's)
statusReady(status) == status.ready
closureIngestReady(op) == op \in {"extract", "full"} /\ statusReady(ingestStatus)
closureCleanReady(op) == op = "full" /\ statusReady(cleanStatus)

\* the async function of invocation k has not ended: its kickoff call is
\* outstanding, or a tick of its poll loop is in flight or scheduled
Active(k) ==
  inv[k].pc \in {"kickoff", "ingestFetch", "cleanFetch", "ingestCheck", "cleanCheck", "timer"}

Launch(op) ==
  /\ mounted
  /\ IF LaunchRefused(op)
     THEN UNCHANGED vars
     ELSE /\ kickoffsSent < MaxLaunch
          /\ kickoffsSent' = kickoffsSent + 1
          /\ inv' = [inv EXCEPT ![kickoffsSent + 1] =
                       [NoInvocation EXCEPT
                          !.op = op,
                          !.pc = "kickoff",
                          !.afterOthers = \A j \in Invocations : ~Active(j),
                          !.capIngestReady = closureIngestReady(op),
                          !.capCleanReady = closureCleanReady(op)]]
          /\ UNCHANGED <<mounted, tracking, endpoint, modal>>

extractData == Launch("extract")
transformData == Launch("transform")
loadAnalytics == Launch("load")
runFullETL == Launch("full")

(***************************************************************************)
(* startPollingMulti(ingestId, cleanId) and its tick.  The operators below *)
(* give the place where the tick of invocation record v waits next, or how *)
(* it ends: "timer" (the next tick is scheduled) or "stopped" (refresh is  *)
(* called and nothing is scheduled).  ingestDone is tick's local variable. *)
(***************************************************************************)
\* the decision of the tick, had it been written with && for ||
tickDecideEitherDone(iDone, cDone) ==
  [pc |-> IF ~iDone /\ ~cDone THEN "timer" ELSE "stopped", ingestDone |-> FALSE]
\* if (!ingestDone || !cleanDone) setTimeout(tick) else refresh()
tickDecide(iDone, cDone) ==
  [pc |-> IF ~iDone \/ ~cDone THEN "timer" ELSE "stopped", ingestDone |-> FALSE]

\* const cleanDone = cleanId ? Boolean(cleanStatus?.ready || await taskReady(cleanId)) : true
tickCleanDone(v, iDone) ==
  IF v.cleanId # NoId /\ ~v.capCleanReady
  THEN [pc |-> "cleanCheck", ingestDone |-> iDone]
  ELSE tickDecide(iDone, TRUE)

\* const ingestDone = ingestId ? Boolean(ingestStatus?.ready || await ingestResOkReady(ingestId)) : true
tickIngestDone(v) ==
  IF v.ingestId # NoId /\ ~v.capIngestReady
  THEN [pc |-> "ingestCheck", ingestDone |-> FALSE]
  ELSE tickCleanDone(v, TRUE)

\* if (cleanId) { await fetchWithAuth(status of cleanId) ... }
tickCleanFetch(v) ==
  IF v.cleanId # NoId
  THEN [pc |-> "cleanFetch", ingestDone |-> FALSE]
  ELSE tickIngestDone(v)

\* if (ingestId) { await fetchWithAuth(status of ingestId) ... }
tickIngestFetch(v) ==
  IF v.ingestId # NoId
  THEN [pc |-> "ingestFetch", ingestDone |-> FALSE]
  ELSE tickCleanFetch(v)

\* clearTimeout(pollRef.current): the timer whose handle the ref holds, when
\* it has not fired yet, never fires
clearPollTimer(f) ==
  [j \in Invocations |->
     IF j = pollRef /\ f[j].pc = "timer" THEN ended(f[j], "cancelled") ELSE f[j]]

\* how a launch operation whose kickoff call did not succeed ends: the
\* error of fetchWithAuth passes through it ("rejected"), or it throws the
\* body of the response as an Error ("raised")
kickoffError(code) ==
  IF fetchWithAuthThrows(code) THEN "rejected" ELSE "raised"

\* a launch operation without its test of res.ok: it throws only when
\* fetchWithAuth threw
kickoffFailsNoOkTest(code) == fetchWithAuthThrows(code)
\* a launch operation throws after its kickoff call: fetchWithAuth threw, or
\* the response is not ok
kickoffFails(code) == fetchWithAuthThrows(code) \/ ~ResOk(code)

\* the job ids a launch operation takes from the kickoff response; the
\* extract_transform_load response may carry no transform id
kickoffIngestId(op, k) ==
  IF op \in {"extract", "full"} THEN ExtractTaskId(k) ELSE NoId
kickoffCleanId(op, k, withTransform) ==
  IF op \in {"transform", "load"} \/ (op = "full" /\ withTransform)
  THEN TransformTaskId(k) ELSE NoId

\* a launch operation that leaves the stored status to the first tick
launchStatusUnset(id) == NullStatus
\* the status a launch operation stores for a slot
launchStatus(id) == IF id # NoId THEN PendingStatus(id) ELSE NullStatus

(***************************************************************************)
(* The kickoff call of invocation k returns with outcome code.             *)
(***************************************************************************)
KickoffFailed(k, code) ==
  /\ inv[k].pc = "kickoff"
  /\ kickoffFails(code)
  /\ inv' = [inv EXCEPT ![k] = ended(@, kickoffError(code))]
  /\ UNCHANGED <<mounted, tracking, kickoffsSent, endpoint, modal>>

KickoffSucceeded(k, code, withTransform) ==
  /\ inv[k].pc = "kickoff"
  /\ ~kickoffFails(code)
  /\ withTransform \/ inv[k].op = "full"
  /\ LET iid == kickoffIngestId(inv[k].op, k)
         cid == kickoffCleanId(inv[k].op, k, withTransform)
         v == [inv[k] EXCEPT !.ingestId = iid, !.cleanId = cid, !.ticks = 1]
         t == tickIngestFetch(v)
     IN /\ IF mounted
           THEN /\ ingestTaskId' = iid
                /\ cleanTaskId' = cid
                /\ ingestStatus' = launchStatus(iid)
                /\ cleanStatus' = launchStatus(cid)
           ELSE UNCHANGED <<ingestTaskId, cleanTaskId, ingestStatus, cleanStatus>>
        /\ inv' = [clearPollTimer(inv) EXCEPT ![k] = at(v, t)]
        /\ pollRef' = IF t.pc = "timer" THEN k ELSE pollRef
  /\ UNCHANGED <<mounted, kickoffsSent, endpoint, modal>>

\* the kickoff call of invocation k returns with outcome code
KickoffReturns(k, code) ==
  \/ KickoffFailed(k, code)
  \/ \E withTransform \in BOOLEAN : KickoffSucceeded(k, code, withTransform)

(***************************************************************************)
(* A status request of the tick of invocation k returns with outcome code; *)
(* a successful response reports state st.  The tick goes on to its next   *)
(* await or to its end in the same step.                                   *)
(***************************************************************************)
\* the readiness request, had it been written to go on polling a job that
\* failed because the database could not be reached
taskReadyUnlessConnectionError(code, s) ==
  IF ~ResOk(code) THEN FALSE ELSE s.ready /\ ~hasConnectionError(s)
\* the ready flag ingestResOkReady and taskReady return on a response with
\* outcome code whose body, when the response is ok, is the status s
taskReady(code, s) ==
  IF ~ResOk(code) THEN FALSE ELSE s.ready

\* the status the tick stores for a slot: the body s of an ok response, or
\* the stored status turned into a failure that carries the body txt of a
\* response that is not ok
tickStored(code, s, txt, prev) ==
  IF ResOk(code) THEN s ELSE SyntheticFailure(prev, txt)

\* the tick of invocation record v awaits a request for its extract job
askingIngest(v) == v.pc \in {"ingestFetch", "ingestCheck"}

\* Scenario A: a job is PENDING at the first status request of its loop and
\* SUCCESS from the second tick on; the readiness request of the first tick
\* finds it in either state
scenarioA(v, st) ==
  IF v.ticks = 1
  THEN st = "PENDING" \/ (v.pc \in {"ingestCheck", "cleanCheck"} /\ st = "SUCCESS")
  ELSE st = "SUCCESS"

\* Scenario B: the extract job is PENDING in tick 1 and SUCCESS from tick 2
\* on, the other job is PENDING in ticks 1 and 2 and FAILURE with a
\* connectivity message from tick 3 on
scenarioB(v, st, i) ==
  IF askingIngest(v)
  THEN st = (IF v.ticks < 2 THEN "PENDING" ELSE "SUCCESS") /\ i = NullInfo
  ELSE IF v.ticks < 3
  THEN st = "PENDING" /\ i = NullInfo
  ELSE st = "FAILURE" /\ i = Info(Absent, "Database connection failed: timeout")

\* the answers the status endpoint gives to a request of invocation k
mayAnswer(k, code, st, i) ==
  CASE endpoint = "up" -> TRUE
    [] endpoint = "down" -> ~fetchWithAuthThrows(code) /\ ~ResOk(code)
    [] endpoint = "stuck" -> k = 1 \/ (ResOk(code) /\ st = "PENDING")
    [] endpoint = "scenarioA" -> ResOk(code) /\ scenarioA(inv[k], st)
    [] endpoint = "scenarioB" -> ResOk(code) /\ scenarioB(inv[k], st, i)

\* fetchWithAuth threw inside the tick: the promise of the tick is rejected,
\* nothing is scheduled and refresh is not called
StatusThrew(k, code) ==
  /\ inv[k].pc \in {"ingestFetch", "cleanFetch", "ingestCheck", "cleanCheck"}
  /\ mayAnswer(k, code, "PENDING", NullInfo)
  /\ fetchWithAuthThrows(code)
  /\ inv' = [inv EXCEPT ![k] = ended(@, "threw")]
  /\ UNCHANGED <<mounted, tracking, kickoffsSent, endpoint, modal>>

\* where the tick of invocation record v goes when the request it awaits
\* returns with outcome code and, in an ok response, the status s
tickResumes(v, code, s) ==
  CASE v.pc = "ingestFetch" -> tickCleanFetch(v)
    [] v.pc = "cleanFetch" -> tickIngestDone(v)
    [] v.pc = "ingestCheck" -> tickCleanDone(v, taskReady(code, s))
    [] v.pc = "cleanCheck" -> tickDecide(v.ingestDone, taskReady(code, s))

StatusReturned(k, code, st, i) ==
  /\ inv[k].pc \in {"ingestFetch", "cleanFetch", "ingestCheck", "cleanCheck"}
  /\ ~fetchWithAuthThrows(code)
  /\ ResOk(code) \/ (st = "PENDING" /\ i = NullInfo)
  /\ mayAnswer(k, code, st, i)
  /\ LET v == inv[k]
         s == BackendStatus(IF askingIngest(v) THEN v.ingestId ELSE v.cleanId, st, i)
         t == tickResumes(v, code, s)
     IN /\ ingestStatus' =
             IF mounted /\ v.pc = "ingestFetch"
             THEN tickStored(code, s, ErrorBody, ingestStatus)
             ELSE ingestStatus
        /\ cleanStatus' =
             IF mounted /\ v.pc = "cleanFetch"
             THEN tickStored(code, s, ErrorBody, cleanStatus)
             ELSE cleanStatus
        /\ inv' = [inv EXCEPT ![k] = at(v, t)]
        /\ pollRef' = IF t.pc = "timer" THEN k ELSE pollRef
  /\ UNCHANGED <<mounted, ingestTaskId, cleanTaskId, kickoffsSent, endpoint,
                 modal>>

(***************************************************************************)
(* The timer of invocation k fires: its next tick starts.                  *)
(***************************************************************************)
\* the ticks a poll loop may start: Scenario B has three
tickLimit == IF endpoint = "scenarioB" THEN MaxTicks + 1 ELSE MaxTicks

\* the next tick, had it been started by an interval timer set when the
\* loop starts: it starts whether or not the tick before it has ended
TimerFiresEverySecond(k) ==
  /\ inv[k].pc \in {"ingestFetch", "cleanFetch", "ingestCheck", "cleanCheck", "timer"}
  /\ inv[k].ticks < tickLimit
  /\ LET t == tickIngestFetch(inv[k])
     IN /\ inv' = [inv EXCEPT ![k] = at([@ EXCEPT !.ticks = @ + 1], t)]
        /\ pollRef' = IF t.pc = "timer" THEN k ELSE pollRef
  /\ UNCHANGED <<mounted, ingestTaskId, cleanTaskId, ingestStatus, cleanStatus,
                 kickoffsSent, endpoint, modal>>

TimerFires(k) ==
  /\ inv[k].pc = "timer"
  /\ inv[k].ticks < tickLimit
  /\ LET t == tickIngestFetch(inv[k])
     IN /\ inv' = [inv EXCEPT ![k] = at([@ EXCEPT !.ticks = @ + 1], t)]
        /\ pollRef' = IF t.pc = "timer" THEN k ELSE pollRef
  /\ UNCHANGED <<mounted, ingestTaskId, cleanTaskId, ingestStatus, cleanStatus,
                 kickoffsSent, endpoint, modal>>

(***************************************************************************)
(* The component is unmounted: the cleanup of the mount effect clears the  *)
(* timer the ref holds.  State setters called later have no effect.        *)
(***************************************************************************)
Unmount ==
  /\ mounted
  /\ mounted' = FALSE
  /\ inv' = clearPollTimer(inv)
  /\ UNCHANGED <<tracking, kickoffsSent, endpoint, modal>>

Next ==
  \/ extractData
  \/ transformData
  \/ loadAnalytics
  \/ runFullETL
  \/ \E k \in Invocations, code \in Outcomes : KickoffReturns(k, code)
  \/ \E k \in Invocations, code \in Outcomes : StatusThrew(k, code)
  \/ \E k \in Invocations, code \in Outcomes, st \in BackendStates :
       \E i \in BackendInfos(askingIngest(inv[k]), st) :
         StatusReturned(k, code, st, i)
  \/ \E k \in Invocations : TimerFires(k)
  \/ Unmount

Spec == Init /\ [][Next]_vars

(***************************************************************************)
(* The classifier on every status.  The component has just started the two *)
(* jobs of runFullETL; the tick stores whatever status the body of an ok   *)
(* response holds, and turns the stored status into a failure that carries *)
(* whatever text the body of a response that is not ok holds.  Every       *)
(* render classifies the stored status of the extract slot.                *)
(***************************************************************************)
\* the statuses the body of an ok status response for job id can hold
StatusBodies(id) == {BackendStatus(id, st, i) : st \in TaskState, i \in Infos}

InitClassify ==
  /\ InitModal
  /\ mounted = TRUE
  /\ ingestTaskId = ExtractTaskId(1)
  /\ cleanTaskId = TransformTaskId(1)
  /\ ingestStatus = PendingStatus(ExtractTaskId(1))
  /\ cleanStatus = PendingStatus(TransformTaskId(1))
  /\ pollRef = 0
  /\ kickoffsSent = 1
  /\ inv = [k \in Invocations |->
              IF k = 1
              THEN [NoInvocation EXCEPT
                      !.op = "full", !.pc = "ingestFetch", !.ticks = 1,
                      !.ingestId = ExtractTaskId(1), !.cleanId = TransformTaskId(1)]
              ELSE NoInvocation]
  /\ endpoint = "up"

\* setIngestStatus(s)
StoreIngestStatus(s) ==
  /\ ingestStatus' = tickStored(HttpOk, s, ErrorBody, ingestStatus)
  /\ UNCHANGED <<mounted, ingestTaskId, cleanTaskId, cleanStatus, pollRef,
                 kickoffsSent, inv, endpoint, modal>>

\* setIngestStatus(prev => ...) with the body txt of a response that is not ok
FailIngestStatus(txt) ==
  /\ ingestStatus' = tickStored(HttpServerError, NullStatus, txt, ingestStatus)
  /\ UNCHANGED <<mounted, ingestTaskId, cleanTaskId, cleanStatus, pollRef,
                 kickoffsSent, inv, endpoint, modal>>

NextClassify ==
  \/ \E s \in StatusBodies(ingestTaskId) : StoreIngestStatus(s)
  \/ \E txt \in Texts : FailIngestStatus(txt)

SpecClassify == InitClassify /\ [][NextClassify]_vars

(***************************************************************************)
(* The progress projection on every status.  The component has just        *)
(* started the two jobs of runFullETL; each tick stores for each slot      *)
(* whatever status the body of an ok response holds, with or without a     *)
(* percent in its info, and every render projects the two stored statuses  *)
(* to the widths of the two progress bars.                                 *)
(***************************************************************************)
\* Math.max, Math.min
max(a, b) == IF a >= b THEN a ELSE b
min(a, b) == IF a <= b THEN a ELSE b

\* typeof status?.info?.percent === "number"
hasPercent(status) == status # NullStatus /\ status.info.percent # {}
percentOf(status) == CHOOSE p \in status.info.percent : TRUE

\* the projection of the second stage without its clamp
cleanPctUnclamped ==
  IF cleanStatus.state = "SUCCESS" THEN 100
  ELSE IF cleanStatus.state = "FAILURE" \/ hasConnectionError(cleanStatus) THEN 100
  ELSE IF hasPercent(cleanStatus) THEN percentOf(cleanStatus)
  ELSE 10

ingestPct ==
  IF ingestStatus.state = "SUCCESS" THEN 100
  ELSE IF ingestStatus.state = "FAILURE" \/ hasConnectionError(ingestStatus) THEN 100
  ELSE IF hasPercent(ingestStatus) THEN max(0, min(100, percentOf(ingestStatus)))
  ELSE IF ingestStatus.state = "STARTED" \/ ingestStatus.state = "PENDING" THEN 1
  ELSE 0

cleanPct ==
  IF cleanStatus.state = "SUCCESS" THEN 100
  ELSE IF cleanStatus.state = "FAILURE" \/ hasConnectionError(cleanStatus) THEN 100
  ELSE IF hasPercent(cleanStatus) THEN max(0, min(100, percentOf(cleanStatus)))
  ELSE IF cleanStatus.state = "STARTED" \/ cleanStatus.state = "PENDING" THEN 10
  ELSE 10

\* the numbers the percent of an info is drawn from: below, at and above
\* the two ends of the bar
Percents == {-1, 0, 1, 50, 99, 100, 101}

\* the infos of the projected statuses: none, a message, each with and
\* without a percent
ProgressInfos ==
  LET plain == {NullInfo, Info(Absent, "Database connection failed: timeout")}
  IN plain \cup {withPercent(i, p) : i \in plain, p \in Percents}

\* the statuses the body of an ok status response for job id can hold
ProgressBodies(id) ==
  {BackendStatus(id, st, i) : st \in TaskState, i \in ProgressInfos}

\* setCleanStatus(s)
StoreCleanStatus(s) ==
  /\ cleanStatus' = tickStored(HttpOk, s, ErrorBody, cleanStatus)
  /\ UNCHANGED <<mounted, ingestTaskId, cleanTaskId, ingestStatus, pollRef,
                 kickoffsSent, inv, endpoint, modal>>

NextProgress ==
  \/ \E s \in ProgressBodies(ingestTaskId) : StoreIngestStatus(s)
  \/ \E s \in ProgressBodies(cleanTaskId) : StoreCleanStatus(s)

SpecProgress == InitClassify /\ [][NextProgress]_vars

(***************************************************************************)
(* Notions the properties below are stated with.                           *)
(***************************************************************************)
\* the poll loop of invocation k is RUNNING: a tick is in flight or the next
\* tick is scheduled
Running(k) ==
  inv[k].pc \in {"ingestFetch", "cleanFetch", "ingestCheck", "cleanCheck", "timer"}

\* invocation k is the one the component tracks
Current(k) ==
  /\ inv[k].ticks > 0
  /\ ingestTaskId = inv[k].ingestId
  /\ cleanTaskId = inv[k].cleanId

\* every job invocation k tracks has a stored status that is ready
TrackedReady(k) ==
  /\ inv[k].ingestId # NoId => ingestStatus.ready
  /\ inv[k].cleanId # NoId => cleanStatus.ready

\* the calls of refresh the poll loop of invocation k has made: the tick
\* calls it when it stops, and then the loop is over
refreshCalls(k) == IF inv[k].pc = "stopped" THEN 1 ELSE 0

\* the slots a launch operation launches into
UsesIngest(op) == op \in {"extract", "full"}
UsesClean(op) == op \in {"transform", "load", "full"}

\* the Guard of a slot op launches into is active
TargetGuardActive(op) ==
  \/ UsesIngest(op) /\ ingestRunning
  \/ UsesClean(op) /\ cleanRunning

(***************************************************************************)
(* C1.  When the status endpoint answers every status request of the       *)
(* single tracked job with a non-success response, then once the first     *)
(* tick is over the stored status is FAILURE with ready = true and the     *)
(* loop has stopped: no timer, no second tick.                             *)
(***************************************************************************)
C1_StopsOnFirstFailedTick ==
  LET v == inv[1]
  IN (/\ endpoint = "down"
      /\ mounted
      /\ kickoffsSent = 1
      /\ v.op = "extract"
      /\ v.pc \in {"timer", "stopped", "cancelled"} \/ v.ticks > 1)
     => /\ ingestStatus.state = "FAILURE"
        /\ ingestStatus.ready
        /\ v.pc = "stopped"
        /\ v.ticks = 1

(***************************************************************************)
(* C2.  Once the stored status of a job is ready, no step stores a status  *)
(* that is not ready for the same job.                                     *)
(***************************************************************************)
C2_ReadyNeverRegresses ==
  [][/\ (ingestStatus.ready /\ ingestStatus'.task_id = ingestStatus.task_id)
          => ingestStatus'.ready
     /\ (cleanStatus.ready /\ cleanStatus'.task_id = cleanStatus.task_id)
          => cleanStatus'.ready]_vars

(***************************************************************************)
(* C3.  At the end of a tick of the tracked invocation the loop has        *)
(* stopped if and only if the stored status of every job it tracks is      *)
(* ready.                                                                  *)
(***************************************************************************)
C3_StoppedIffAllReady ==
  \A k \in Invocations :
    (mounted /\ Current(k) /\ inv[k].pc \in {"timer", "stopped"})
      => (inv[k].pc = "stopped" <=> TrackedReady(k))

(***************************************************************************)
(* C4.  No two kickoff requests into the same slot are outstanding at the  *)
(* same time: a second launch request made while the kickoff call of the   *)
(* first awaits its response sends nothing.                                *)
(***************************************************************************)
C4_OneKickoffPerSlot ==
  \A j, k \in Invocations :
    (j # k /\ inv[j].pc = "kickoff" /\ inv[k].pc = "kickoff")
      => /\ ~(UsesIngest(inv[j].op) /\ UsesIngest(inv[k].op))
         /\ ~(UsesClean(inv[j].op) /\ UsesClean(inv[k].op))

(***************************************************************************)
(* C5.  A launch operation invoked while the Guard of a slot it launches   *)
(* into is active sends no kickoff request and leaves the job ids, the     *)
(* stored statuses, the poll timer and every poll loop as they are.        *)
(***************************************************************************)
C5_GuardedLaunchIsNoOp ==
  [][\A op \in Ops :
       (TargetGuardActive(op) /\ Launch(op))
         => UNCHANGED <<kickoffsSent, inv, tracking>>]_vars

\* both Guards are active, the component is mounted and the model would
\* still let a kickoff through: every launch operation invoked here returns
\* at its guard
C5_Witness ==
  /\ mounted
  /\ ingestRunning
  /\ cleanRunning
  /\ kickoffsSent < MaxLaunch

(***************************************************************************)
(* C6.  When the kickoff call of a launch operation returns anything but a *)
(* success response, the operation ends with an error, the job ids, the    *)
(* stored statuses and the poll timer are what they were, no tick is       *)
(* started and no other poll loop is touched.                              *)
(***************************************************************************)
C6_FailedKickoffLeavesNoTrace ==
  [][\A k \in Invocations, code \in Outcomes :
       (~ResOk(code) /\ KickoffReturns(k, code))
         => /\ UNCHANGED tracking
            /\ inv'[k].pc \in {"raised", "rejected"}
            /\ inv'[k].ticks = 0
            /\ \A j \in Invocations \ {k} : inv'[j] = inv[j]]_vars

\* a launch has thrown the body of a non-success kickoff response while the
\* poll loop of an earlier launch is running
C6_Witness ==
  \E j, k \in Invocations :
    /\ inv[k].pc = "raised"
    /\ Running(j)
    /\ workflowRunning

(***************************************************************************)
(* C7.  Whatever the outcome of a status request, the tick does not raise. *)
(***************************************************************************)
C7_TickNeverRaises ==
  \A k \in Invocations : inv[k].pc # "threw"

(***************************************************************************)
(* C8.  A launch into one slot leaves the other slot alone: the successful *)
(* kickoff of extractData changes neither the job id nor the stored status *)
(* of the transform/load slot, that of transformData or loadAnalytics      *)
(* neither of the extract slot, and it ends no poll loop; and the Guard of *)
(* a slot goes from active to inactive only in a step that stores a ready  *)
(* status for the job of that slot.                                        *)
(***************************************************************************)
C8_OtherSlotUntouched ==
  [][/\ \A k \in Invocations, code \in Outcomes :
          (ResOk(code) /\ KickoffReturns(k, code))
            => /\ inv[k].op = "extract" => UNCHANGED <<cleanTaskId, cleanStatus>>
               /\ inv[k].op \in {"transform", "load"}
                    => UNCHANGED <<ingestTaskId, ingestStatus>>
               /\ inv[k].op # "full"
                    => \A j \in Invocations \ {k} : Running(j) => inv'[j] = inv[j]
     /\ (ingestRunning /\ ~ingestRunning')
          => (ingestStatus'.ready /\ ingestStatus'.task_id = ingestTaskId)
     /\ (cleanRunning /\ ~cleanRunning')
          => (cleanStatus'.ready /\ cleanStatus'.task_id = cleanTaskId)]_vars

(***************************************************************************)
(* C9.  While the component is mounted, the Guard of a slot is active if   *)
(* and only if the poll loop of the job in that slot is RUNNING.           *)
(***************************************************************************)
C9_GuardIffRunning ==
  mounted =>
    /\ ingestRunning <=>
         \E k \in Invocations :
           Running(k) /\ inv[k].ingestId # NoId /\ inv[k].ingestId = ingestTaskId
    /\ cleanRunning <=>
         \E k \in Invocations :
           Running(k) /\ inv[k].cleanId # NoId /\ inv[k].cleanId = cleanTaskId

(***************************************************************************)
(* C10.  A launch made after the invocation before it has finished (its    *)
(* poll loop has stopped) is polled like a first launch, until its own     *)
(* jobs are reported ready: when the backend never reports the jobs of a   *)
(* later launch ready (it answers every status request for them with a     *)
(* successful PENDING status), the poll loop of the later launch does not  *)
(* stop.                                                                   *)
(***************************************************************************)
C10_RelaunchPolledUntilReady ==
  \A k \in Invocations :
    (/\ endpoint = "stuck"
     /\ k > 1
     /\ inv[k].afterOthers
     /\ inv[k - 1].pc = "stopped")
      => inv[k].pc # "stopped"

(***************************************************************************)
(* C11.  refresh is called at most once by the poll loop of an invocation, *)
(* and never before every job the invocation tracks is ready: when the     *)
(* backend never reports the jobs of a later launch ready, the poll loop   *)
(* of the later launch never calls refresh.                                *)
(***************************************************************************)
C11_RefreshOnceWhenAllReady ==
  \A k \in Invocations :
    /\ refreshCalls(k) <= 1
    /\ (endpoint = "stuck" /\ k > 1) => refreshCalls(k) = 0

(***************************************************************************)
(* C12.  Scenario A: extractData on a fresh component, one job, PENDING at *)
(* the first status request and SUCCESS from the second tick on.  The poll *)
(* loop does not go beyond its second tick, and when it has stopped it has *)
(* made exactly 2 ticks, the stored status of the job is SUCCESS with      *)
(* ready = true and the Guard of the extract slot is inactive.             *)
(***************************************************************************)
C12_ScenarioA ==
  LET v == inv[1]
  IN (/\ endpoint = "scenarioA"
      /\ mounted
      /\ kickoffsSent = 1
      /\ v.op = "extract")
     => /\ v.ticks <= 2
        /\ v.pc = "stopped"
             => /\ v.ticks = 2
                /\ ingestStatus = BackendStatus(v.ingestId, "SUCCESS", NullInfo)
                /\ ingestStatus.ready
                /\ ~ingestRunning

(***************************************************************************)
(* C13.  Scenario B: runFullETL on a fresh component, jobs t1 and t2; t1   *)
(* is reported SUCCESS from tick 2 on, t2 FAILURE with a connectivity      *)
(* message from tick 3 on.  The poll loop does not stop before tick 3 and  *)
(* makes no tick after it; when it has stopped, the stored status of t2 is *)
(* classified as a connection failure and that of t1 is SUCCESS.           *)
(***************************************************************************)
C13_ScenarioB ==
  LET v == inv[1]
  IN (/\ endpoint = "scenarioB"
      /\ mounted
      /\ kickoffsSent = 1
      /\ v.op = "full"
      /\ v.cleanId # NoId)
     => /\ v.pc \in {"ingestFetch", "cleanFetch", "ingestCheck", "cleanCheck", "timer", "stopped"}
        /\ v.pc = "timer" => v.ticks < 3
        /\ v.pc = "stopped"
             => /\ v.ticks = 3
                /\ cleanStatus.task_id = v.cleanId
                /\ cleanStatus.state = "FAILURE"
                /\ hasConnectionError(cleanStatus)
                /\ classify(cleanStatus) = "INFRA_CONNECTIVITY"
                /\ ingestStatus = BackendStatus(v.ingestId, "SUCCESS", NullInfo)

\* the poll loop of Scenario B has stopped
C13_Witness ==
  /\ endpoint = "scenarioB"
  /\ mounted
  /\ kickoffsSent = 1
  /\ inv[1].op = "full"
  /\ inv[1].cleanId # NoId
  /\ inv[1].pc = "stopped"
  /\ inv[1].ticks = 3

(***************************************************************************)
(* C14.  The teardown of the component leaves no poll timer pending.       *)
(***************************************************************************)
C14_TeardownCancelsTimers ==
  [][Unmount => \A k \in Invocations : inv'[k].pc # "timer"]_vars

(***************************************************************************)
(* C15.  After the teardown of the component no poll loop schedules a      *)
(* tick: no step taken after it sets a poll timer.                         *)
(***************************************************************************)
C15_NoTimerSetAfterTeardown ==
  [][~mounted =>
       \A k \in Invocations : inv'[k].pc = "timer" => inv[k].pc = "timer"]_vars

(***************************************************************************)
(* C16.  While the component is mounted the poll loop of an invocation     *)
(* ends only by stopping with every job it tracks reported ready: it is    *)
(* never ended by a later launch (its timer cleared) nor by an error of a  *)
(* status request, and the loop of a later launch whose jobs the backend   *)
(* never reports ready does not stop.                                      *)
(***************************************************************************)
C16_EndsOnlyWhenDone ==
  \A k \in Invocations :
    /\ mounted => inv[k].pc \notin {"cancelled", "threw"}
    /\ (mounted /\ endpoint = "stuck" /\ k > 1) => inv[k].pc # "stopped"

(***************************************************************************)
(* C17.  The classifier reports a connection failure whenever info.error   *)
(* or info.message contains "database connection failed" in any case, also *)
(* when error does not contain it and message does; otherwise a status of  *)
(* state FAILURE is a generic failure and any other status no failure.     *)
(***************************************************************************)
\* the text t is there and contains "database connection failed" in any case
mentionsConnectionFailure(t) ==
  t # Absent /\ includes(toLowerCase(chars(t)), ConnectionFailedText)

C17_ClassifierAsSpecified ==
  classify(ingestStatus) =
    IF \/ mentionsConnectionFailure(ingestStatus.info.error)
       \/ mentionsConnectionFailure(ingestStatus.info.message)
    THEN "INFRA_CONNECTIVITY"
    ELSE IF ingestStatus.state = "FAILURE" THEN "GENERIC_FAILURE"
    ELSE "NONE"

(***************************************************************************)
(* C18.  The info of a status does not steer the loop nor the Guard.  In   *)
(* every state in which a tick awaits the response to a status request,    *)
(* whatever state an ok response reports, the tick resumes at the same     *)
(* place (the same await, the timer, or the stop) whichever info the body  *)
(* carries; and with any other info in a stored status the Guards and the  *)
(* ready flags a launch captures are what they are.                        *)
(***************************************************************************)
\* infos of every classification: none, a generic failure, a connection
\* failure told in message or in error, and one told in message behind an
\* error that tells another failure
AltInfos ==
  {NullInfo,
   Info("KeyError: 'x'", Absent),
   Info(Absent, "Database connection failed: timeout"),
   Info("Database connection failed: timeout", Absent),
   Info("KeyError: 'x'", "OperationalError: database connection failed")}

\* status with info i in the place of its info
withInfo(status, i) ==
  IF status = NullStatus THEN NullStatus ELSE [status EXCEPT !.info = i]

C18_InfoDoesNotSteer ==
  \A i \in AltInfos :
    /\ \A k \in Invocations :
         inv[k].pc \in {"ingestFetch", "cleanFetch", "ingestCheck", "cleanCheck"}
           => LET v == inv[k]
                  id == IF askingIngest(v) THEN v.ingestId ELSE v.cleanId
              IN \A st \in TaskState :
                   tickResumes(v, HttpOk, BackendStatus(id, st, i))
                     = tickResumes(v, HttpOk, BackendStatus(id, st, NullInfo))
    /\ slotRunning(ingestTaskId, withInfo(ingestStatus, i)) = ingestRunning
    /\ slotRunning(cleanTaskId, withInfo(cleanStatus, i)) = cleanRunning
    /\ statusReady(withInfo(ingestStatus, i)) = statusReady(ingestStatus)
    /\ statusReady(withInfo(cleanStatus, i)) = statusReady(cleanStatus)

\* a poll loop has stopped with a connection failure stored in one slot and
\* a generic failure in the other
C18_Witness ==
  \E k \in Invocations :
    /\ mounted
    /\ Current(k)
    /\ inv[k].pc = "stopped"
    /\ classify(ingestStatus) = "GENERIC_FAILURE"
    /\ classify(cleanStatus) = "INFRA_CONNECTIVITY"

(***************************************************************************)
(* C19.  When the request of a tick for the status of a job returns a      *)
(* response that is not ok while the component is mounted, the status      *)
(* stored for the job is the failure made from the response, whatever the  *)
(* slot held: the id of the job, state FAILURE, ready = true,              *)
(* successful = false and an info that holds the body of the response as   *)
(* message and nothing else.                                               *)
(***************************************************************************)
\* the failure made from a response that is not ok, stored for job id
failureOf(id) ==
  [task_id |-> id, state |-> "FAILURE", ready |-> TRUE, successful |-> "false",
   info |-> Info(Absent, ErrorBody)]

C19_FailedRequestStoresFailure ==
  [][\A k \in Invocations, code \in Outcomes :
       (mounted /\ ~ResOk(code) /\ StatusReturned(k, code, "PENDING", NullInfo))
         => /\ inv[k].pc = "ingestFetch" => ingestStatus' = failureOf(inv[k].ingestId)
            /\ inv[k].pc = "cleanFetch" => cleanStatus' = failureOf(inv[k].cleanId)]_vars

(***************************************************************************)
(* C20.  The ticks of one invocation do not overlap: a tick of invocation  *)
(* k starts only when no status request of an earlier tick of k is         *)
(* outstanding.                                                            *)
(***************************************************************************)
C20_TicksDoNotOverlap ==
  [][\A k \in Invocations :
       inv'[k].ticks > inv[k].ticks => inv[k].pc \in {"kickoff", "timer"}]_vars

\* the second tick of a poll loop is in flight
C20_Witness ==
  \E k \in Invocations :
    /\ inv[k].ticks = 2
    /\ inv[k].pc \in {"ingestFetch", "cleanFetch", "ingestCheck", "cleanCheck"}

(***************************************************************************)
(* C21.  A tick sends a polling request only for a job whose stored status *)
(* is not ready: when the status endpoint answers every request with a     *)
(* successful response, no step of a mounted component puts a poll loop at *)
(* the polling request for a job while the slot stores a ready status of   *)
(* that job.                                                               *)
(***************************************************************************)
\* the slot's stored status is a ready status of job id
StoredReady(status, id) ==
  id # NoId /\ status.task_id = id /\ status.ready

C21_PollsOnlyJobsNotReady ==
  [][\A k \in Invocations :
       (mounted /\ endpoint \in {"scenarioA", "scenarioB"}) =>
         /\ (inv[k].pc # "ingestFetch" /\ inv'[k].pc = "ingestFetch")
              => ~StoredReady(ingestStatus', inv'[k].ingestId)
         /\ (inv[k].pc # "cleanFetch" /\ inv'[k].pc = "cleanFetch")
              => ~StoredReady(cleanStatus', inv'[k].cleanId)]_vars

(***************************************************************************)
(* The poll loops under fair scheduling, against a status endpoint that    *)
(* answers every request with a successful response and in the end reports *)
(* every job as ready (the scripts of the two scenarios).  A response that *)
(* is awaited arrives and a timer that stays set fires; the launches and   *)
(* the teardown are the user's and may never happen.                       *)
(***************************************************************************)
InitLive == Init /\ endpoint \in {"scenarioA", "scenarioB"}

NextLive ==
  \/ extractData
  \/ transformData
  \/ loadAnalytics
  \/ runFullETL
  \/ \E k \in Invocations, code \in Outcomes : KickoffReturns(k, code)
  \/ \E k \in Invocations, code \in Outcomes, st \in BackendStates :
       \E i \in BackendInfos(askingIngest(inv[k]), st) :
         StatusReturned(k, code, st, i)
  \/ \E k \in Invocations : TimerFires(k)
  \/ Unmount

\* the event loop delivers every response and runs every timer that is set
Scheduling ==
  \A k \in Invocations :
    /\ WF_vars(\E code \in Outcomes : KickoffReturns(k, code))
    /\ WF_vars(\E code \in Outcomes, st \in BackendStates :
                 \E i \in BackendInfos(askingIngest(inv[k]), st) :
                   StatusReturned(k, code, st, i))
    /\ WF_vars(TimerFires(k))

SpecLive == InitLive /\ [][NextLive]_vars /\ Scheduling

(***************************************************************************)
(* C22.  When every status request succeeds and the backend in the end     *)
(* reports every tracked job as ready, then under fair scheduling of       *)
(* timers and responses the polling of a component that stays mounted      *)
(* eventually stops and the completion refresh is issued: every poll loop  *)
(* that runs eventually calls refresh as it stops, or has been ended by    *)
(* the start of another poll loop that does.                               *)
(***************************************************************************)
C22_LoopEventuallyStops ==
  \A k \in Invocations :
    Running(k) ~>
      \/ ~mounted
      \/ refreshCalls(k) = 1
      \/ /\ inv[k].pc = "cancelled"
         /\ \A j \in Invocations : ~Running(j)
         /\ \E j \in Invocations : refreshCalls(j) = 1

\* a 2-stage loop has run until the backend reported both jobs as ready, and
\* has stopped; the other loop was ended by its start
C22_Witness ==
  /\ mounted
  /\ \E k, j \in Invocations :
       /\ inv[k].op = "full"
       /\ inv[k].cleanId # NoId
       /\ refreshCalls(k) = 1
       /\ ingestStatus.ready /\ cleanStatus.ready
       /\ inv[j].pc = "cancelled"

(***************************************************************************)
(* C23.  The number of ticks has no bound: while the status endpoint       *)
(* answers every status request for the jobs of a poll loop with a         *)
(* successful response whose status is not ready and the component stays   *)
(* mounted, every tick of the loop that ends has set the timer of the next *)
(* tick.  Stated for the loop of a launch made when the poll loop of the   *)
(* launch before it had stopped.                                           *)
(***************************************************************************)
\* a tick of invocation record v awaits a status request
InTick(v) == v.pc \in {"ingestFetch", "cleanFetch", "ingestCheck", "cleanCheck"}

C23_NextTickAfterEveryTick ==
  [][\A k \in Invocations :
       (/\ endpoint = "stuck"
        /\ k > 1
        /\ inv[k].afterOthers
        /\ inv[k - 1].pc = "stopped"
        /\ mounted
        /\ InTick(inv[k])
        /\ ~InTick(inv'[k]))
         => inv'[k].pc = "timer"]_vars

(***************************************************************************)
(* C24.  Immediately after a successful kickoff on a mounted component,    *)
(* every job id the launch tracks has a stored status with state PENDING,  *)
(* ready = false, successful = null and no info, the Guard of each slot    *)
(* that holds a job is active, and the first tick is in flight: it started *)
(* in the step of the kickoff response, not by a timer.                    *)
(***************************************************************************)
\* status is the status a launch stores for job id
InitialStatusOf(status, id) ==
  /\ status.task_id = id
  /\ status.state = "PENDING"
  /\ ~status.ready
  /\ status.successful = "null"
  /\ status.info = NullInfo

C24_AfterKickoff ==
  [][\A k \in Invocations :
       (mounted /\ inv[k].pc = "kickoff" /\ Running(k)')
         => LET v == inv'[k]
            IN /\ v.ingestId # NoId
                    => /\ ingestTaskId' = v.ingestId
                       /\ InitialStatusOf(ingestStatus', v.ingestId)
                       /\ ingestRunning'
               /\ v.cleanId # NoId
                    => /\ cleanTaskId' = v.cleanId
                       /\ InitialStatusOf(cleanStatus', v.cleanId)
                       /\ cleanRunning'
               /\ v.ingestId # NoId \/ v.cleanId # NoId
               /\ InTick(v)
               /\ v.ticks = 1]_vars

\* the kickoff of a 2-stage launch has just succeeded: both slots hold a
\* job, and the first status request of the first tick is awaited
C24_Witness ==
  /\ mounted
  /\ \E k \in Invocations :
       /\ Current(k)
       /\ inv[k].op = "full"
       /\ inv[k].cleanId # NoId
       /\ inv[k].pc = "ingestFetch"
       /\ inv[k].ticks = 1
       /\ InitialStatusOf(ingestStatus, inv[k].ingestId)
       /\ InitialStatusOf(cleanStatus, inv[k].cleanId)
       /\ workflowRunning

(***************************************************************************)
(* C25.  The poll loop of runFullETL tracks exactly the extract id and the *)
(* transform id of the kickoff response, never the load id.  Without a     *)
(* transform id it has one stage: only the extract job is polled and the   *)
(* loop stops as soon as the extract job is reported ready (in Scenario B, *)
(* at the end of tick 2).  A loop does not stop while a job it tracks has  *)
(* never been reported ready: when the backend answers every status        *)
(* request for the jobs of a launch made after the loop of the launch     *)
(* before it had stopped with a successful PENDING status, the loop of the *)
(* later launch does not stop.                                             *)
(***************************************************************************)
C25_TracksKickoffIds ==
  \A k \in Invocations :
    LET v == inv[k]
    IN (v.op = "full" /\ (Running(k) \/ v.pc = "stopped"))
         => /\ v.ingestId = ExtractTaskId(k)
            /\ v.cleanId \in {NoId, TransformTaskId(k)}
            /\ \A j \in Invocations : LoadTaskId(j) \notin {v.ingestId, v.cleanId}
            /\ v.cleanId = NoId => v.pc \notin {"cleanFetch", "cleanCheck"}
            /\ (/\ endpoint = "scenarioB"
                /\ mounted
                /\ kickoffsSent = 1
                /\ v.cleanId = NoId)
                 => /\ v.pc = "timer" => v.ticks < 2
                    /\ v.pc = "stopped" => v.ticks = 2
            /\ (/\ endpoint = "stuck"
                /\ k > 1
                /\ v.afterOthers
                /\ inv[k - 1].pc = "stopped")
                 => v.pc # "stopped"

(***************************************************************************)
(* C26.  Every status the component stores is consistent: it is ready if   *)
(* and only if its state is SUCCESS or FAILURE, and its success flag is    *)
(* set only when it is ready.  This holds for the status a launch stores,  *)
(* for the failure the tick builds from a response that is not ok, and for *)
(* the statuses of the backend, which are consistent in this way, that the *)
(* tick stores unchanged.                                                  *)
(***************************************************************************)
ConsistentStatus(status) ==
  /\ status.ready <=> status.state \in {"SUCCESS", "FAILURE"}
  /\ status.successful # "null" => status.ready

C26_StoredStatusConsistent ==
  /\ ingestStatus # NullStatus => ConsistentStatus(ingestStatus)
  /\ cleanStatus # NullStatus => ConsistentStatus(cleanStatus)

\* the extract slot stores the failure built from a response that is not ok
\* while the other slot still stores the status of the launch
C26_Witness ==
  /\ ingestStatus.state = "FAILURE"
  /\ ingestStatus.info = Info(Absent, ErrorBody)
  /\ ingestStatus.successful = "false"
  /\ cleanStatus.state = "PENDING"
  /\ cleanStatus.successful = "null"

(***************************************************************************)
(* C27.  The progress projection of a stage follows these rules in this    *)
(* order: state SUCCESS gives 100; state FAILURE or a status classified as *)
(* a connection failure gives 100; a numeric percent gives the percent     *)
(* clamped to [0,100]; state STARTED or PENDING without percent gives the  *)
(* floor of the stage, 1 for the first and 10 for the second.  Whatever    *)
(* the status and the percent, the projection lies in [0,100].             *)
(***************************************************************************)
\* pct is what the rules give for status in a stage with the given floor
ProjectedAsSpecified(status, pct, floor) ==
  LET failed == status.state = "FAILURE" \/ classify(status) = "INFRA_CONNECTIVITY"
      clamped == LET p == percentOf(status)
                 IN IF p < 0 THEN 0 ELSE IF p > 100 THEN 100 ELSE p
  IN /\ pct \in 0..100
     /\ status.state = "SUCCESS" => pct = 100
     /\ (status.state # "SUCCESS" /\ failed) => pct = 100
     /\ (status.state # "SUCCESS" /\ ~failed /\ hasPercent(status))
          => pct = clamped
     /\ (/\ status.state \in {"STARTED", "PENDING"}
         /\ ~failed
         /\ ~hasPercent(status))
          => pct = floor

C27_ProgressProjection ==
  /\ ProjectedAsSpecified(ingestStatus, ingestPct, 1)
  /\ ProjectedAsSpecified(cleanStatus, cleanPct, 10)

\* the second stage reports a percent above 100 and is shown at 100, the
\* first stage has started without a percent and is shown at its floor
C27_Witness ==
  /\ cleanStatus.state = "PROGRESS"
  /\ cleanStatus.info.percent = {101}
  /\ cleanPct = 100
  /\ ingestStatus.state = "STARTED"
  /\ ~hasPercent(ingestStatus)
  /\ ingestPct = 1

(***************************************************************************)
(* C28.  Each slot is consistent in every reachable state: its job id and  *)
(* its stored status are both absent or both present, and a stored status  *)
(* carries the job id the slot holds.                                      *)
(***************************************************************************)
SlotConsistent(id, status) ==
  /\ id = NoId <=> status = NullStatus
  /\ status # NullStatus => status.task_id = id

C28_SlotsConsistent ==
  /\ SlotConsistent(ingestTaskId, ingestStatus)
  /\ SlotConsistent(cleanTaskId, cleanStatus)

(***************************************************************************)
(* C29.  At most one poll loop exists for the component: at most one loop  *)
(* is running (no tick of an earlier loop is in flight or scheduled once a *)
(* later loop has started), at most one poll timer is pending, and a       *)
(* pending timer is the one whose handle pollRef holds.                    *)
(***************************************************************************)
C29_OnePollLoop ==
  /\ Cardinality({k \in Invocations : Running(k)}) <= 1
  /\ Cardinality({k \in Invocations : inv[k].pc = "timer"}) <= 1
  /\ \A k \in Invocations : inv[k].pc = "timer" => pollRef = k

(***************************************************************************)
(* fetchWithAuth and the unauthorized modal (auth/middleware/              *)
(* fetchWithAuth.tsx, unauthorizedModalTrigger, UnauthorizedModalProvider).*)
(* Calls of fetchWithAuth are followed one at a time from the request to   *)
(* its end; the callbacks it passes to setTimeout run later, in the order  *)
(* they were set.  The provider registers its setter in its mount effect,  *)
(* before or after the first calls.                                        *)
(***************************************************************************)
\* the callbacks that may be pending at a time
MaxPending == 2

\* paths the page calls fetchWithAuth with
Paths == {"/tasks/run/extract-data", "/tasks/1/status"}

\* the test of line 21, had it been written for 401 only
unauthorizedStatus401Only(code) == code = HttpUnauthorized
\* res.status === 401 || res.status === 403
unauthorizedStatus(code) == code = HttpUnauthorized \/ code = HttpForbidden

\* typeof window !== "undefined": every caller of fetchWithAuth is an effect
\* or an event handler of a client component, which run in the browser
hasWindow == TRUE

\* setTimeout(() => triggerUnauthorizedModal(path, res.status), 0)
scheduled(path, code) ==
  IF unauthorizedStatus(code) /\ hasWindow
  THEN Append(triggers, [path |-> path, status |-> code])
  ELSE triggers

\* how the call ends: fetch rejects and the await throws, the status is 401
\* or 403 and an Error is thrown, or the response is returned
outcome(path, code) ==
  [kind |-> IF code = NetworkError THEN "fetch rejected"
            ELSE IF unauthorizedStatus(code) THEN "Error: Unauthorized"
            ELSE "response",
   path |-> path,
   status |-> code]

fetchWithAuth(path, code) ==
  /\ Len(triggers) < MaxPending
  /\ returned' = outcome(path, code)
  /\ triggers' = IF code = NetworkError THEN triggers ELSE scheduled(path, code)
  /\ UNCHANGED <<page, setModalState, modalState>>

\* the callback of the oldest timer runs
triggerUnauthorizedModal ==
  /\ triggers # <<>>
  /\ modalState' = IF setModalState # NoSetter THEN Head(triggers) ELSE modalState
  /\ triggers' = Tail(triggers)
  /\ UNCHANGED <<page, setModalState, returned>>

\* the mount effect of UnauthorizedModalProvider
registerUnauthorizedModalSetter ==
  /\ setModalState = NoSetter
  /\ setModalState' = "setState"
  /\ UNCHANGED <<page, modalState, triggers, returned>>

\* onClose of the modal: setState(null)
onClose ==
  /\ modalState # NoModal
  /\ modalState' = NoModal
  /\ UNCHANGED <<page, setModalState, triggers, returned>>

InitAuth == Init /\ endpoint = "up"

NextAuth ==
  \/ \E path \in Paths, code \in Outcomes : fetchWithAuth(path, code)
  \/ triggerUnauthorizedModal
  \/ registerUnauthorizedModalSetter
  \/ onClose

SpecAuth == InitAuth /\ [][NextAuth]_vars

(***************************************************************************)
(* C30.  fetchWithAuth returns the response for every HTTP status other    *)
(* than 401 and 403 and schedules nothing; for 401 or 403 it raises an     *)
(* error instead of returning and schedules exactly one trigger of the     *)
(* unauthorized modal, for its path and status.  A trigger that runs sets  *)
(* the modal state to its path and status when a setter is registered,     *)
(* and changes nothing when none is.                                       *)
(***************************************************************************)
C30_FetchWithAuth ==
  [][/\ \A path \in Paths, code \in Outcomes \ {NetworkError} :
          fetchWithAuth(path, code)
            => IF code \in {401, 403}
               THEN /\ returned'.kind # "response"
                    /\ Len(triggers') = Len(triggers) + 1
                    /\ triggers'[Len(triggers')] = [path |-> path, status |-> code]
                    /\ SubSeq(triggers', 1, Len(triggers)) = triggers
               ELSE /\ returned' = [kind |-> "response", path |-> path, status |-> code]
                    /\ triggers' = triggers
     /\ triggerUnauthorizedModal
          => /\ Len(triggers') = Len(triggers) - 1
             /\ IF setModalState # NoSetter
                THEN modalState' = Head(triggers)
                ELSE UNCHANGED <<modalState, setModalState, returned, page>>]_vars

\* the modal shows the 403 of a status request whose call ended with an
\* error, and a trigger is pending
C30_Witness ==
  /\ setModalState # NoSetter
  /\ modalState = [path |-> "/tasks/1/status", status |-> 403]
  /\ returned = [kind |-> "Error: Unauthorized", path |-> "/tasks/1/status", status |-> 403]
  /\ Len(triggers) = 1

====
